---- MODULE Spec2Model ----
(***************************************************************************)
(* A model of the federated-learning coordinator FedAvg of src/server.py. *)
(*                                                                         *)
(* The coordinator object is the state; its public operations             *)
(* (setup_model, register_clients, register_testloader, fit) are called   *)
(* by a single caller thread, one at a time.  fit() is unfolded into its  *)
(* statements (pc is the position inside fit), and the thread pool of     *)
(* update_clients into one start and one finish step per worker task.     *)
(*                                                                         *)
(* Tensors are abstracted to one rational number per parameter key, a     *)
(* pair <<numerator, denominator>>; Python's float arithmetic is modelled *)
(* as exact rational arithmetic (rounding is not modelled).               *)
(***************************************************************************)
EXTENDS Integers, Sequences, FiniteSets, TLC

(***************************************************************************)
(* Bounds of the model.                                                    *)
(***************************************************************************)
\* fit() is only started while _round + num_rounds <= MaxRound
MaxRound == 2
\* num_rounds of the server configuration ranges over 0..MaxNumRounds
MaxNumRounds == 2
\* start_epoch of setup_model ranges over 0..MaxStartEpoch
MaxStartEpoch == 1
\* multiprocessing.cpu_count() ranges over 1..MaxCpuCount
MaxCpuCount == 3
\* SpecSample: the number of registered clients ranges over 1..MaxClients
MaxClients == 5
\* SpecSample: the fractions are p/q with 1 <= p <= q <= MaxDenominator
MaxDenominator == 4

(***************************************************************************)
(* Rational arithmetic on pairs <<n, d>> with d > 0.                       *)
(***************************************************************************)
Abs(x) == IF x < 0 THEN -x ELSE x

Max(a, b) == IF a >= b THEN a ELSE b

RECURSIVE GCD(_, _)
GCD(a, b) == IF b = 0 THEN a ELSE GCD(b, a % b)

RatNorm(q) ==
    LET g == GCD(Abs(q[1]), q[2])
    IN  <<q[1] \div g, q[2] \div g>>

RatAdd(p, q) == RatNorm(<<p[1] * q[2] + q[1] * p[2], p[2] * q[2]>>)

RatMul(p, q) == RatNorm(<<p[1] * q[1], p[2] * q[2]>>)

RatEq(p, q) == p[1] * q[2] = q[1] * p[2]

\* int(x) of a rational x = n/d, d > 0: truncation towards zero
IntTrunc(n, d) == IF n >= 0 THEN n \div d ELSE -((-n) \div d)

(***************************************************************************)
(* The inputs the environment supplies.                                    *)
(***************************************************************************)
\* parameter keys of the architecture ds_bundle.featurizer / classifier
Keys == {"w", "b"}

\* the parameters of ds_bundle's freshly built networks
InitState == [k \in Keys |-> <<0, 1>>]

\* the parameters torch.load(model_file) returns
FileState == [k \in Keys |-> <<1, 1>>]

\* server_config['fraction'], as a rational
Fractions == {<<1, 2>>, <<1, 1>>, <<-1, 2>>, <<3, 2>>}

\* the lists of clients handed to register_clients: each client has a name,
\* a dataset size len(client) and the key set its learner exports
MkClient(nm, sz) == [name |-> nm, size |-> sz, keys |-> Keys]

\* a client whose learner exports another key set than the global model's
MkClientKeys(nm, sz, keys) == [name |-> nm, size |-> sz, keys |-> keys]

ClientSets ==
    { <<>>,
      <<MkClient("z", 0), MkClient("z", 5)>>,
      <<MkClientKeys("k", 1, Keys \cup {"x"}), MkClientKeys("k", 1, {"w"})>>,
      <<MkClient("a", 10), MkClient("a", 20), MkClient("a", 30), MkClient("a", 40)>> }

\* the dictionaries handed to register_testloader, by their key sets
LoaderInputs == { {"in"}, {"in", "lodo", "id_test", "test"} }

\* what a learner's local update can leave in the parameters it exports
LearnerValues == {<<1, 1>>, <<3, 1>>}

LearnerOutputs(keys) ==
    {[k \in keys |-> IF k = "w" THEN v ELSE RatAdd(v, <<1, 1>>)] : v \in LearnerValues}

VARIABLES
    mp_flag,              \* self.mp_flag
    num_rounds,           \* self.num_rounds
    fraction,             \* self.fraction
    _round,               \* self._round
    hasModel,             \* self._featurizer, self._classifier, self.model exist
    model,                \* self.model.state_dict()
    clients,              \* self.clients: index 0..n-1 -> client
    num_clients,          \* self.num_clients
    test_dataloader,      \* the keys of self.test_dataloader
    pc,                   \* the position of the caller thread inside fit()
    r,                    \* fit's loop variable r
    sampled_client_indices,
    selected_total_size,
    mixing_coefficients,
    tasks,                \* thread pool: position in the sampled list -> task
    workers,              \* thread pool: number of worker threads
    seqPos,               \* sequential dispatch: position in the sampled list
    evalPos,              \* number of holdout sets evaluated in this round
    files,                \* the checkpoint files: path -> what was saved
    lastOp,               \* the public operation called last
    error,                \* the exception the last public operation raised
    phaseLog,             \* history: the phases begun in the current round
    executed,             \* history: the round numbers rounds have run under
    fitStartRound,        \* history: _round when the current fit() was called
    localUpdates,         \* history: index -> client.fit() calls begun this round
    generator             \* FedADG: self._generator.state_dict()

cfgVars == <<mp_flag, num_rounds, fraction>>
fitVars == <<r, sampled_client_indices, selected_total_size, mixing_coefficients,
             tasks, workers, seqPos, evalPos>>
histVars == <<phaseLog, executed, fitStartRound, localUpdates>>
vars == <<mp_flag, num_rounds, fraction, _round, hasModel, model, clients,
          num_clients, test_dataloader, pc, r, sampled_client_indices,
          selected_total_size, mixing_coefficients, tasks, workers, seqPos,
          evalPos, files, lastOp, error, phaseLog, executed, fitStartRound,
          localUpdates, generator>>

NoFn == <<>>

\* FedAvg.__init__
Init ==
    /\ mp_flag \in BOOLEAN
    /\ num_rounds \in 0..MaxNumRounds
    /\ fraction \in Fractions
    /\ _round = 0
    /\ hasModel = FALSE
    /\ model = NoFn
    /\ clients = NoFn
    /\ num_clients = 0
    /\ test_dataloader = {}
    /\ pc = "idle"
    /\ r = 0
    /\ sampled_client_indices = <<>>
    /\ selected_total_size = 0
    /\ mixing_coefficients = <<>>
    /\ tasks = NoFn
    /\ workers = 0
    /\ seqPos = 0
    /\ evalPos = 0
    /\ files = NoFn
    /\ lastOp = "init"
    /\ error = "none"
    /\ phaseLog = <<>>
    /\ executed = {}
    /\ fitStartRound = 0
    /\ localUpdates = NoFn
    /\ generator = NoFn

(***************************************************************************)
(* The client sessions (client.py is not part of the sources: modelled    *)
(* from the interface the specification gives in its section 6).          *)
(***************************************************************************)
\* client.setup_model(copy of featurizer, copy of classifier)
ClientSetupModel(c, state) == [c EXCEPT !.ready = TRUE, !.state = state]

\* client.update_model(state_dict): the received state replaces the parameters
ClientUpdateModel(c, state) == [c EXCEPT !.state = state]

\* len(client)
ClientLen(c) == c.size

\* client.model.state_dict()
ClientStateDict(c) == c.state

\* a client object as the caller built it, before the server sets it up
NewClient(d) == [name |-> d.name, size |-> d.size, keys |-> d.keys,
                 ready |-> FALSE, state |-> NoFn]

(***************************************************************************)
(* Public operations other than fit.                                       *)
(***************************************************************************)
\* a setup_model without the assertion of line 42
setup_model_NoAssert(model_file, start_epoch) ==
    /\ pc = "idle"
    /\ lastOp' = "setup_model"
    /\ error' = "none"
    /\ hasModel' = TRUE
    /\ IF model_file
       THEN /\ model' = FileState
            /\ _round' = start_epoch
       ELSE /\ model' = (IF hasModel THEN model ELSE InitState)
            /\ UNCHANGED _round
    /\ UNCHANGED <<cfgVars, generator, clients, num_clients, test_dataloader, pc, fitVars,
                   files, histVars>>

\* lines 38-50
setup_model(model_file, start_epoch) ==
    /\ pc = "idle"
    /\ lastOp' = "setup_model"
    /\ IF _round # 0
       THEN /\ error' = "AssertionError"
            /\ UNCHANGED <<_round, hasModel, model>>
       ELSE /\ error' = "none"
            /\ hasModel' = TRUE
            /\ IF model_file
               THEN /\ model' = FileState
                    /\ _round' = start_epoch
               ELSE /\ model' = (IF hasModel THEN model ELSE InitState)
                    /\ UNCHANGED _round
    /\ UNCHANGED <<cfgVars, generator, clients, num_clients, test_dataloader, pc, fitVars,
                   files, histVars>>

\* lines 52-57
register_clients(cs) ==
    /\ pc = "idle"
    /\ lastOp' = "register_clients"
    /\ num_clients' = Len(cs)
    /\ IF Len(cs) > 0 /\ ~hasModel
       THEN /\ error' = "AttributeError"
            /\ clients' = [i \in 0..(Len(cs) - 1) |-> NewClient(cs[i + 1])]
       ELSE /\ error' = "none"
            /\ clients' = [i \in 0..(Len(cs) - 1) |->
                              ClientSetupModel(NewClient(cs[i + 1]), model)]
    /\ UNCHANGED <<cfgVars, generator, _round, hasModel, model, test_dataloader, pc,
                   fitVars, files, histVars>>

\* lines 59-60
register_testloader(dataloaders) ==
    /\ pc = "idle"
    /\ lastOp' = "register_testloader"
    /\ error' = "none"
    /\ test_dataloader' = test_dataloader \cup dataloaders
    /\ UNCHANGED <<cfgVars, generator, _round, hasModel, model, clients, num_clients, pc,
                   fitVars, files, histVars>>

SetupModel == \E mf \in BOOLEAN, se \in 0..MaxStartEpoch : setup_model(mf, se)

RegisterClients == \E cs \in ClientSets : register_clients(cs)

RegisterTestloader == \E d \in LoaderInputs : register_testloader(d)

(***************************************************************************)
(* Helpers of fit.                                                         *)
(***************************************************************************)
Range(s) == {s[i] : i \in DOMAIN s}

RECURSIVE Insert(_, _)
Insert(x, s) ==
    IF s = <<>> THEN <<x>>
    ELSE IF x <= Head(s) THEN <<x>> \o s
    ELSE <<Head(s)>> \o Insert(x, Tail(s))

\* sorted(list): ascending, duplicates kept
RECURSIVE Sorted(_)
Sorted(s) == IF s = <<>> THEN <<>> ELSE Insert(Head(s), Sorted(Tail(s)))

\* a draw with replacement
Draws_WithReplacement(n, k) == [1..k -> 0..(n - 1)]

\* what np.random.choice(a=range(n), size=k, replace=False) can return
Draws(n, k) ==
    {d \in [1..k -> 0..(n - 1)] : \A i, j \in 1..k : i # j => d[i] # d[j]}

\* an exception leaves fit(): the caller gets it, fit's locals are gone
Raise(e) ==
    /\ pc' = "idle"
    /\ error' = e
    /\ sampled_client_indices' = <<>>
    /\ selected_total_size' = 0
    /\ mixing_coefficients' = <<>>
    /\ tasks' = NoFn
    /\ workers' = 0
    /\ seqPos' = 0
    /\ evalPos' = 0

Log(phase) == phaseLog' = Append(phaseLog, phase)

(***************************************************************************)
(* fit, lines 206-233, and what it calls.                                  *)
(***************************************************************************)
\* lines 210-214: fit() is called
FitBegin ==
    /\ pc = "idle"
    /\ _round + num_rounds <= MaxRound
    /\ pc' = "loop"
    /\ lastOp' = "fit"
    /\ error' = "none"
    /\ r' = 0
    /\ fitStartRound' = _round
    /\ phaseLog' = <<>>
    /\ localUpdates' = [i \in DOMAIN clients |-> 0]
    /\ UNCHANGED <<cfgVars, generator, _round, hasModel, model, clients,
                   num_clients, test_dataloader, sampled_client_indices,
                   selected_total_size, mixing_coefficients, tasks, workers,
                   seqPos, evalPos, files, executed>>

\* a round loop that sets the round counter from its loop variable
FitLoop_CountsFromLoopIndex ==
    /\ pc = "loop"
    /\ IF r < num_rounds
       THEN /\ _round' = r + 1
            /\ executed' = executed \cup {r + 1}
            /\ phaseLog' = <<>>
            /\ localUpdates' = [i \in DOMAIN clients |-> 0]
            /\ pc' = "sample"
       ELSE /\ pc' = "report"
            /\ UNCHANGED <<_round, executed, phaseLog, localUpdates>>
    /\ UNCHANGED <<cfgVars, generator, hasModel, model, clients, num_clients,
                   test_dataloader, fitVars, files, lastOp, error, fitStartRound>>

\* lines 215-218: the head of the round loop
FitLoop ==
    /\ pc = "loop"
    /\ IF r < num_rounds
       THEN /\ _round' = _round + 1
            /\ executed' = executed \cup {_round + 1}
            /\ phaseLog' = <<>>
            /\ localUpdates' = [i \in DOMAIN clients |-> 0]
            /\ pc' = "sample"
       ELSE /\ pc' = "report"
            /\ UNCHANGED <<_round, executed, phaseLog, localUpdates>>
    /\ UNCHANGED <<cfgVars, generator, hasModel, model, clients, num_clients,
                   test_dataloader, fitVars, files, lastOp, error, fitStartRound>>

\* line 93
num_sampled_clients == Max(IntTrunc(fraction[1] * num_clients, fraction[2]), 1)

\* a sampler that returns the draw as np.random.choice gave it
sample_clients_unsorted(draw) == draw

\* line 94, given what np.random.choice drew
sample_clients(draw) == Sorted(draw)

\* line 165 and lines 83-96; np.random.choice raises ValueError when it is
\* asked for more distinct elements than the population has
SampleClients ==
    /\ pc = "sample"
    /\ Log("sample")
    /\ IF num_sampled_clients > num_clients
       THEN /\ Raise("ValueError")
       ELSE /\ \E draw \in Draws(num_clients, num_sampled_clients) :
                   sampled_client_indices' = sample_clients(draw)
            /\ pc' = "transmit"
            /\ UNCHANGED <<selected_total_size, mixing_coefficients, tasks,
                           workers, seqPos, evalPos, error>>
    /\ UNCHANGED <<cfgVars, generator, _round, hasModel, model, clients, num_clients,
                   test_dataloader, r, files, lastOp, executed, fitStartRound, localUpdates>>

\* a transmit_model that sends to every client, whatever the indices
transmit_model_ToAll(indices) ==
    [i \in DOMAIN clients |-> ClientUpdateModel(clients[i], model)]

\* a transmit_model that sends the parameters the networks were built with
transmit_model_Stale(indices) ==
    [i \in DOMAIN clients |->
        IF i \in indices THEN ClientUpdateModel(clients[i], InitState)
        ELSE clients[i]]

\* lines 62-81: the clients after transmit_model(indices)
transmit_model(indices) ==
    [i \in DOMAIN clients |->
        IF i \in indices THEN ClientUpdateModel(clients[i], model) ELSE clients[i]]

\* line 168; self.model does not exist before setup_model, and a client that
\* register_clients did not get to set up has no model to load the state into
TransmitSampled ==
    /\ pc = "transmit"
    /\ Log("transmit")
    /\ IF ~hasModel \/ \E i \in Range(sampled_client_indices) : ~clients[i].ready
       THEN /\ Raise("AttributeError")
            /\ UNCHANGED clients
       ELSE /\ clients' = transmit_model(Range(sampled_client_indices))
            /\ pc' = "dispatch"
            /\ UNCHANGED <<sampled_client_indices, selected_total_size,
                           mixing_coefficients, tasks, workers, seqPos, evalPos,
                           error>>
    /\ UNCHANGED <<cfgVars, generator, _round, hasModel, model, num_clients,
                   test_dataloader, r, files, lastOp, executed, fitStartRound, localUpdates>>

\* lines 109-113 and 116: update_clients is entered; with mp_flag the pool
\* is built with cpu_count() - 1 threads (ValueError when that is 0) and
\* map() queues one task per sampled index
UpdateClientsBegin ==
    /\ pc = "dispatch"
    /\ Log("dispatch")
    /\ selected_total_size' = 0
    /\ IF mp_flag
       THEN \E cpu_count \in 1..MaxCpuCount :
               IF cpu_count - 1 < 1
               THEN Raise("ValueError")
               ELSE /\ workers' = cpu_count - 1
                    /\ tasks' = [p \in 1..Len(sampled_client_indices) |->
                                    [idx |-> sampled_client_indices[p],
                                     st |-> "pending", result |-> 0]]
                    /\ pc' = "map"
                    /\ UNCHANGED <<sampled_client_indices, mixing_coefficients,
                                   seqPos, evalPos, error>>
       ELSE /\ seqPos' = 1
            /\ pc' = "update"
            /\ UNCHANGED <<sampled_client_indices, mixing_coefficients, tasks,
                           workers, evalPos, error>>
    /\ UNCHANGED <<cfgVars, generator, _round, hasModel, model, clients, num_clients,
                   test_dataloader, r, files, lastOp, executed, fitStartRound, localUpdates>>

\* client.fit() succeeded: the learner left `out` in the client's parameters
ClientFit(c, out) == [c EXCEPT !.state = out]

\* what a failed client.fit() can leave in the client's parameters
FailedFitStates(c) == {c.state} \cup LearnerOutputs(c.keys)

\* a loop that assigns the client's size to the total instead of adding it
UpdateSeqStep_Overwrites ==
    /\ pc = "update"
    /\ seqPos <= Len(sampled_client_indices)
    /\ LET idx == sampled_client_indices[seqPos]
       IN  \/ \E out \in LearnerOutputs(clients[idx].keys) :
                  /\ clients' = [clients EXCEPT ![idx] = ClientFit(@, out)]
                  /\ selected_total_size' = ClientLen(clients[idx])
                  /\ seqPos' = seqPos + 1
                  /\ UNCHANGED <<pc, sampled_client_indices, mixing_coefficients,
                                 tasks, workers, evalPos, error>>
           \/ \E st \in FailedFitStates(clients[idx]) :
                  /\ clients' = [clients EXCEPT ![idx] = ClientFit(@, st)]
                  /\ Raise("TrainingError")
    /\ localUpdates' =
           [localUpdates EXCEPT ![sampled_client_indices[seqPos]] = @ + 1]
    /\ UNCHANGED <<cfgVars, generator, _round, hasModel, model, num_clients,
                   test_dataloader, r, files, lastOp, phaseLog, executed,
                   fitStartRound>>

\* lines 117-119: one iteration of the sequential loop; client.fit() may raise
UpdateSeqStep ==
    /\ pc = "update"
    /\ seqPos <= Len(sampled_client_indices)
    /\ LET idx == sampled_client_indices[seqPos]
       IN  \/ \E out \in LearnerOutputs(clients[idx].keys) :
                  /\ clients' = [clients EXCEPT ![idx] = ClientFit(@, out)]
                  /\ selected_total_size' =
                         selected_total_size + ClientLen(clients[idx])
                  /\ seqPos' = seqPos + 1
                  /\ UNCHANGED <<pc, sampled_client_indices, mixing_coefficients,
                                 tasks, workers, evalPos, error>>
           \/ \E st \in FailedFitStates(clients[idx]) :
                  /\ clients' = [clients EXCEPT ![idx] = ClientFit(@, st)]
                  /\ Raise("TrainingError")
    /\ localUpdates' =
           [localUpdates EXCEPT ![sampled_client_indices[seqPos]] = @ + 1]
    /\ UNCHANGED <<cfgVars, generator, _round, hasModel, model, num_clients,
                   test_dataloader, r, files, lastOp, phaseLog, executed,
                   fitStartRound>>

\* lines 117, 120-122: the sequential loop is over, update_clients returns
UpdateSeqEnd ==
    /\ pc = "update"
    /\ seqPos > Len(sampled_client_indices)
    /\ pc' = "coefficients"
    /\ UNCHANGED <<cfgVars, generator, _round, hasModel, model, clients, num_clients,
                   test_dataloader, r, sampled_client_indices,
                   selected_total_size, mixing_coefficients, tasks, workers,
                   seqPos, evalPos, files, lastOp, error, histVars>>

Running == {i \in DOMAIN tasks : tasks[i].st = "running"}

Pending == {i \in DOMAIN tasks : tasks[i].st = "pending"}

\* a pool thread takes the next task off the queue (tasks are queued in the
\* order of the sampled list, one task per chunk for lists this short) and
\* enters update_single_client(idx); the pool threads run whatever the
\* caller thread is doing
WorkerStart ==
    /\ Pending # {}
    /\ Cardinality(Running) < workers
    /\ LET p == CHOOSE i \in Pending : \A j \in Pending : i <= j
       IN  /\ tasks' = [tasks EXCEPT ![p].st = "running"]
           /\ localUpdates' = [localUpdates EXCEPT ![tasks[p].idx] = @ + 1]
    /\ UNCHANGED <<cfgVars, generator, _round, hasModel, model, clients,
                   num_clients, test_dataloader, pc, r, sampled_client_indices,
                   selected_total_size, mixing_coefficients, workers, seqPos,
                   evalPos, files, lastOp, error, phaseLog, executed,
                   fitStartRound>>

\* lines 104-107 on a pool thread: update_single_client(idx) ends
WorkerFinish ==
    /\ \E p \in Running :
          LET idx == tasks[p].idx
          IN  \/ \E out \in LearnerOutputs(clients[idx].keys) :
                     /\ clients' = [clients EXCEPT ![idx] = ClientFit(@, out)]
                     /\ tasks' = [tasks EXCEPT ![p].st = "ok",
                                               ![p].result = ClientLen(clients[idx])]
              \/ \E st \in FailedFitStates(clients[idx]) :
                     /\ clients' = [clients EXCEPT ![idx] = ClientFit(@, st)]
                     /\ tasks' = [tasks EXCEPT ![p].st = "failed"]
    /\ UNCHANGED <<cfgVars, generator, _round, hasModel, model, num_clients,
                   test_dataloader, pc, r, sampled_client_indices,
                   selected_total_size, mixing_coefficients, workers, seqPos,
                   evalPos, files, lastOp, error, histVars>>

RECURSIVE SumResults(_)
SumResults(S) ==
    IF S = {} THEN 0
    ELSE LET i == CHOOSE j \in S : TRUE
         IN  tasks[i].result + SumResults(S \ {i})

\* map() returns once no task of the job is left (in Python 3 also when a
\* task has raised)
MapReady == \A i \in DOMAIN tasks : tasks[i].st \in {"ok", "failed"}

\* a map() that returns as soon as every task has been taken off the queue
UpdateJoin_NoBarrier ==
    /\ pc = "map"
    /\ Pending = {}
    /\ selected_total_size' = SumResults(DOMAIN tasks)
    /\ workers' = 0
    /\ pc' = "coefficients"
    /\ UNCHANGED <<cfgVars, generator, _round, hasModel, model, clients, num_clients,
                   test_dataloader, r, sampled_client_indices,
                   mixing_coefficients, tasks, seqPos, evalPos, files, lastOp,
                   error, histVars>>

\* lines 113-115, 120-122: map() returns the results or re-raises a task's
\* exception, the pool is terminated on leaving the with block, the results
\* are summed and update_clients returns
UpdateJoin ==
    /\ pc = "map"
    /\ MapReady
    /\ IF \E i \in DOMAIN tasks : tasks[i].st = "failed"
       THEN Raise("TrainingError")
       ELSE /\ selected_total_size' = SumResults(DOMAIN tasks)
            /\ workers' = 0
            /\ pc' = "coefficients"
            /\ UNCHANGED <<sampled_client_indices, mixing_coefficients, tasks,
                           seqPos, evalPos, error>>
    /\ UNCHANGED <<cfgVars, generator, _round, hasModel, model, clients, num_clients,
                   test_dataloader, r, files, lastOp, histVars>>

\* a division that takes a total of 0 for 1 instead of raising
MixingCoefficients_ClampsTotal ==
    /\ pc = "coefficients"
    /\ Log("coefficients")
    /\ mixing_coefficients' =
           [i \in 1..Len(sampled_client_indices) |->
               <<ClientLen(clients[sampled_client_indices[i]]),
                 Max(selected_total_size, 1)>>]
    /\ pc' = "aggregate"
    /\ UNCHANGED <<cfgVars, generator, _round, hasModel, model, clients, num_clients,
                   test_dataloader, r, sampled_client_indices,
                   selected_total_size, tasks, workers, seqPos, evalPos, files,
                   lastOp, error, executed, fitStartRound, localUpdates>>

\* line 177: len(client) / selected_total_size for each sampled index
MixingCoefficients ==
    /\ pc = "coefficients"
    /\ Log("coefficients")
    /\ IF selected_total_size = 0
       THEN Raise("ZeroDivisionError")
       ELSE /\ mixing_coefficients' =
                  [i \in 1..Len(sampled_client_indices) |->
                      <<ClientLen(clients[sampled_client_indices[i]]),
                        selected_total_size>>]
            /\ pc' = "aggregate"
            /\ UNCHANGED <<sampled_client_indices, selected_total_size, tasks,
                           workers, seqPos, evalPos, error>>
    /\ UNCHANGED <<cfgVars, generator, _round, hasModel, model, clients, num_clients,
                   test_dataloader, r, files, lastOp, executed, fitStartRound, localUpdates>>

\* lines 148-154 from iteration `it` on, `averaged` being averaged_weights;
\* local_weights[key] raises KeyError for a key the client does not export
RECURSIVE Accumulate(_, _, _, _)
Accumulate(it, indices, coefficients, averaged) ==
    IF it > Len(indices) THEN [ok |-> TRUE, weights |-> averaged]
    ELSE LET local_weights == ClientStateDict(clients[indices[it]])
         IN  IF ~(DOMAIN model \subseteq DOMAIN local_weights)
             THEN [ok |-> FALSE, weights |-> averaged]
             ELSE Accumulate(it + 1, indices, coefficients,
                    [key \in DOMAIN model |->
                        IF it = 1
                        THEN RatMul(coefficients[it], local_weights[key])
                        ELSE RatAdd(averaged[key],
                                    RatMul(coefficients[it], local_weights[key]))])

\* an aggregation that takes the plain mean of the sampled clients
aggregate_unweighted(indices, coefficients) ==
    Accumulate(1, indices, [i \in DOMAIN coefficients |-> <<1, Len(indices)>>], NoFn)

\* lines 141-155: averaged_weights as load_state_dict gets it
aggregate(indices, coefficients) == Accumulate(1, indices, coefficients, NoFn)

\* line 178
Aggregate ==
    /\ pc = "aggregate"
    /\ Log("aggregate")
    /\ LET res == aggregate(sampled_client_indices, mixing_coefficients)
       IN  IF ~res.ok
           THEN /\ Raise("KeyError")
                /\ UNCHANGED model
           ELSE /\ model' = res.weights
                /\ evalPos' = 0
                /\ pc' = "evaluate"
                /\ UNCHANGED <<sampled_client_indices, selected_total_size,
                               mixing_coefficients, tasks, workers, seqPos, error>>
    /\ UNCHANGED <<cfgVars, generator, _round, hasModel, clients, num_clients,
                   test_dataloader, r, files, lastOp, executed, fitStartRound, localUpdates>>

\* lines 221-227: the global model is evaluated on the next holdout set
EvaluateHoldout ==
    /\ pc = "evaluate"
    /\ evalPos < Cardinality(test_dataloader)
    /\ Log("evaluate")
    /\ evalPos' = evalPos + 1
    /\ UNCHANGED <<cfgVars, generator, _round, hasModel, model, clients, num_clients,
                   test_dataloader, pc, r, sampled_client_indices,
                   selected_total_size, mixing_coefficients, tasks, workers,
                   seqPos, files, lastOp, error, executed, fitStartRound, localUpdates>>

\* a round loop that goes on to the next round without saving
EvaluateEnd_SkipsCheckpoint ==
    /\ pc = "evaluate"
    /\ evalPos = Cardinality(test_dataloader)
    /\ pc' = "loop"
    /\ r' = r + 1
    /\ UNCHANGED <<cfgVars, generator, _round, hasModel, model, clients, num_clients,
                   test_dataloader, sampled_client_indices,
                   selected_total_size, mixing_coefficients, tasks, workers,
                   seqPos, evalPos, files, lastOp, error, histVars>>

\* lines 221, 228: every holdout set is evaluated, the round's line is logged
EvaluateEnd ==
    /\ pc = "evaluate"
    /\ evalPos = Cardinality(test_dataloader)
    /\ pc' = "checkpoint"
    /\ UNCHANGED <<cfgVars, generator, _round, hasModel, model, clients, num_clients,
                   test_dataloader, r, sampled_client_indices,
                   selected_total_size, mixing_coefficients, tasks, workers,
                   seqPos, evalPos, files, lastOp, error, histVars>>

\* line 236: the path, by its variable parts (the dataset name and the
\* experiment id are fixed for one coordinator)
CheckpointPath(num_epoch) == <<clients[0].name, num_epoch>>

\* lines 235-237; of a file's contents the model keeps the round that wrote it
save_model(num_epoch) ==
    (CheckpointPath(num_epoch) :> [round |-> _round]) @@ files

\* line 229, and the loop variable moves on
SaveModel ==
    /\ pc = "checkpoint"
    /\ Log("checkpoint")
    /\ files' = save_model(r)
    /\ r' = r + 1
    /\ pc' = "loop"
    /\ UNCHANGED <<cfgVars, generator, _round, hasModel, model, clients, num_clients,
                   test_dataloader, sampled_client_indices, selected_total_size,
                   mixing_coefficients, tasks, workers, seqPos, evalPos, lastOp,
                   error, executed, fitStartRound, localUpdates>>

\* lines 230-232: np.argmax over the rounds x holdout-sets array raises
\* ValueError for an empty array, and its result is unpacked into exactly
\* four names
ReportOk == num_rounds > 0 /\ Cardinality(test_dataloader) = 4

Report ==
    /\ pc = "report"
    /\ IF ReportOk
       THEN /\ pc' = "broadcast"
            /\ UNCHANGED <<fitVars, error>>
       ELSE /\ Raise("ValueError")
            /\ UNCHANGED r
    /\ UNCHANGED <<cfgVars, generator, _round, hasModel, model, clients, num_clients,
                   test_dataloader, files, lastOp, histVars>>

\* line 233: transmit_model() to all clients, and fit returns
FinalBroadcast ==
    /\ pc = "broadcast"
    /\ clients' = transmit_model(DOMAIN clients)
    /\ pc' = "idle"
    /\ sampled_client_indices' = <<>>
    /\ selected_total_size' = 0
    /\ mixing_coefficients' = <<>>
    /\ tasks' = NoFn
    /\ workers' = 0
    /\ seqPos' = 0
    /\ evalPos' = 0
    /\ UNCHANGED <<cfgVars, generator, _round, hasModel, model, num_clients,
                   test_dataloader, r, files, lastOp, error, histVars>>

Next ==
    \/ SetupModel
    \/ RegisterClients
    \/ RegisterTestloader
    \/ FitBegin
    \/ FitLoop
    \/ SampleClients
    \/ TransmitSampled
    \/ UpdateClientsBegin
    \/ UpdateSeqStep
    \/ UpdateSeqEnd
    \/ WorkerStart
    \/ WorkerFinish
    \/ UpdateJoin
    \/ MixingCoefficients
    \/ Aggregate
    \/ EvaluateHoldout
    \/ EvaluateEnd
    \/ SaveModel
    \/ Report
    \/ FinalBroadcast

Spec == Init /\ [][Next]_vars

(***************************************************************************)
(* The sampler on its own: the coordinator at line 165 of its first       *)
(* round, for every number of registered clients and every fraction in    *)
(* (0, 1] within the bounds.                                               *)
(***************************************************************************)
SampleFractions ==
    {f \in (1..MaxDenominator) \X (1..MaxDenominator) : f[1] <= f[2]}

SampleInit ==
    /\ mp_flag = FALSE
    /\ num_rounds = 1
    /\ fraction \in SampleFractions
    /\ _round = 1
    /\ hasModel = TRUE
    /\ model = InitState
    /\ num_clients \in 1..MaxClients
    /\ clients = [i \in 0..(num_clients - 1) |->
                     ClientSetupModel(NewClient(MkClient("s", 1)), InitState)]
    /\ test_dataloader = {}
    /\ pc = "sample"
    /\ r = 0
    /\ sampled_client_indices = <<>>
    /\ selected_total_size = 0
    /\ mixing_coefficients = <<>>
    /\ tasks = NoFn
    /\ workers = 0
    /\ seqPos = 0
    /\ evalPos = 0
    /\ files = NoFn
    /\ lastOp = "fit"
    /\ error = "none"
    /\ phaseLog = <<>>
    /\ executed = {1}
    /\ fitStartRound = 0
    /\ localUpdates = [i \in 0..(num_clients - 1) |-> 0]
    /\ generator = NoFn

SpecSample == SampleInit /\ [][SampleClients]_vars

(***************************************************************************)
(* The claims.                                                             *)
(***************************************************************************)
IsPrefix(s, t) == Len(s) <= Len(t) /\ \A i \in 1..Len(s) : s[i] = t[i]

\* the phases of one round with n holdout sets registered
RoundPhases(n) ==
    <<"sample", "transmit", "dispatch", "coefficients", "aggregate">>
        \o [i \in 1..n |-> "evaluate"] \o <<"checkpoint">>

NumHoldouts == Cardinality(test_dataloader)

\* C1: in every round of fit() the phases begin in the order sample,
\* transmit, dispatch, mixing coefficients, aggregate, one evaluation per
\* holdout set, checkpoint; nothing of the dispatch phase is still going on
\* once the coefficients are computed; and a round begins only after the
\* round before it has gone through all its phases, checkpoint included.
C1_PhasesInOrder ==
    /\ [](pc # "idle" =>
            /\ IsPrefix(phaseLog, RoundPhases(NumHoldouts))
            /\ Len(phaseLog) >= 4 => (Running = {} /\ Pending = {}))
    /\ [][(_round' # _round /\ lastOp' = "fit") =>
            IF r = 0 THEN phaseLog = <<>>
            ELSE phaseLog = RoundPhases(NumHoldouts)]_vars

\* a second round begins after a complete first round with four holdout sets
C1_Witness ==
    /\ pc = "sample"
    /\ r = 1
    /\ NumHoldouts = 4
    /\ files # NoFn

\* C2: with mp_flag set, whenever the caller thread is past update_clients
\* (computing the coefficients, aggregating, evaluating or saving), every
\* sampled index has a task of the pool and that task has completed.
C2_JoinBarrier ==
    (mp_flag /\ pc \in {"coefficients", "aggregate", "evaluate", "checkpoint"}) =>
        \A p \in 1..Len(sampled_client_indices) :
            /\ p \in DOMAIN tasks
            /\ tasks[p].idx = sampled_client_indices[p]
            /\ tasks[p].st = "ok"

\* aggregation is about to run after two pool threads worked on four tasks
C2_Witness ==
    /\ mp_flag
    /\ pc = "aggregate"
    /\ Len(sampled_client_indices) = 4
    /\ Cardinality(DOMAIN tasks) = 4

StrictlyAscending(s) == \A i \in 1..(Len(s) - 1) : s[i] < s[i + 1]

FractionInUnitInterval == fraction[1] > 0 /\ fraction[1] <= fraction[2]

\* C3: for num_clients >= 1 and 0 < fraction <= 1, sample_clients returns
\* (it does not raise) a strictly ascending list of
\* max(floor(fraction * num_clients), 1) indices, each in 0..num_clients-1.
C3_SampleSortedUnique ==
    (lastOp = "fit" /\ phaseLog = <<"sample">> /\ num_clients >= 1
        /\ FractionInUnitInterval) =>
        /\ pc = "transmit"
        /\ StrictlyAscending(sampled_client_indices)
        /\ Len(sampled_client_indices) =
               Max((fraction[1] * num_clients) \div fraction[2], 1)
        /\ \A i \in 1..Len(sampled_client_indices) :
               sampled_client_indices[i] \in 0..(num_clients - 1)

\* three of five clients were sampled, the last of them among the three
C3_Witness ==
    /\ pc = "transmit"
    /\ num_clients = 5
    /\ Len(sampled_client_indices) = 3
    /\ sampled_client_indices[3] = 4
    /\ sampled_client_indices[1] > 0

\* the sum over i <= n of coefficients[i] * (state of client indices[i])[key],
\* as one fraction that is not reduced
RECURSIVE WeightedSum(_, _, _, _)
WeightedSum(key, indices, coefficients, n) ==
    IF n = 0 THEN <<0, 1>>
    ELSE LET rest == WeightedSum(key, indices, coefficients, n - 1)
             value == clients[indices[n]].state[key]
             term == <<coefficients[n][1] * value[1], coefficients[n][2] * value[2]>>
         IN  <<rest[1] * term[2] + term[1] * rest[2], rest[2] * term[2]>>

\* C4: when every sampled client exports every key of the global state,
\* aggregate replaces the global state by a state with the same key set
\* whose value at each key is the sum over the sampled clients of
\* coefficient times that client's exported value at the key.
C4_AggregateWeightedSum ==
    [][(/\ pc = "aggregate"
        /\ \A i \in Range(sampled_client_indices) :
               DOMAIN model \subseteq DOMAIN clients[i].state) =>
         /\ pc' = "evaluate"
         /\ DOMAIN model' = DOMAIN model
         /\ \A key \in DOMAIN model :
               RatEq(model'[key],
                     WeightedSum(key, sampled_client_indices, mixing_coefficients,
                                 Len(sampled_client_indices)))]_vars

\* clients 0 and 1 of sizes 10 and 20 exported w = 1, b = 2 and w = 3, b = 4
C4_Witness ==
    /\ pc = "evaluate"
    /\ sampled_client_indices = <<0, 1>>
    /\ num_clients = 4
    /\ model = [k \in Keys |-> IF k = "w" THEN <<7, 3>> ELSE <<10, 3>>]

RECURSIVE SeqSum(_)
SeqSum(s) == IF s = <<>> THEN 0 ELSE Head(s) + SeqSum(Tail(s))

SampledSizes ==
    [i \in 1..Len(sampled_client_indices) |-> clients[sampled_client_indices[i]].size]

\* C5: in both dispatch modes the coefficients handed to aggregate are, for
\* each sampled client, its size over the total update_clients returned;
\* that total is the sum of the sampled clients' sizes, so the coefficients
\* are non-negative and sum to 1.
C5_CoefficientsSumToOne ==
    pc = "aggregate" =>
        /\ Len(mixing_coefficients) = Len(sampled_client_indices)
        /\ selected_total_size = SeqSum(SampledSizes)
        /\ selected_total_size > 0
        /\ \A i \in 1..Len(mixing_coefficients) :
              /\ mixing_coefficients[i] = <<SampledSizes[i], selected_total_size>>
              /\ mixing_coefficients[i][1] >= 0
        /\ SeqSum([i \in 1..Len(mixing_coefficients) |-> mixing_coefficients[i][1]])
              = selected_total_size

\* four clients of sizes 10, 20, 30, 40 and fraction 1/2: two are sampled
C5_Witness ==
    /\ pc = "aggregate"
    /\ ~mp_flag
    /\ fraction = <<1, 2>>
    /\ num_clients = 4
    /\ sampled_client_indices = <<1, 3>>
    /\ mixing_coefficients = <<(<<20, 60>>), (<<40, 60>>)>>

\* C6: when the sampled clients' total size is 0, line 177 raises: fit ends
\* with ZeroDivisionError, no coefficients exist, aggregate is not begun and
\* the global state is as it was.
C6_ZeroTotalFailsFast ==
    [][(pc = "coefficients" /\ selected_total_size = 0) =>
         /\ pc' = "idle"
         /\ error' = "ZeroDivisionError"
         /\ mixing_coefficients' = <<>>
         /\ model' = model
         /\ \A i \in 1..Len(phaseLog') : phaseLog'[i] # "aggregate"]_vars

\* fit has ended with the division's error
C6_Witness ==
    /\ lastOp = "fit"
    /\ pc = "idle"
    /\ error = "ZeroDivisionError"
    /\ selected_total_size = 0
    /\ phaseLog = <<"sample", "transmit", "dispatch", "coefficients">>

\* C7: during fit the round counter changes only by +1, once per round
\* begun, to a number no round has run under; when the loop is over the
\* counter is the value fit started with plus num_rounds.
C7_RoundCounterIncreases ==
    /\ [][(lastOp' = "fit" /\ _round' # _round) =>
             (_round' = _round + 1 /\ _round' \notin executed)]_vars
    /\ [][(pc = "loop" /\ pc' = "sample") => _round' = _round + 1]_vars
    /\ []((lastOp = "fit" /\ (pc \in {"report", "broadcast"}
                              \/ (pc = "idle" /\ error = "none"))) =>
             _round = fitStartRound + num_rounds)

\* a fit resumed at epoch 1 is through its one round
C7_Witness ==
    /\ pc = "report"
    /\ fitStartRound = 1
    /\ num_rounds = 1
    /\ _round = 2
    /\ executed = {2}

\* C8: a fit() with a fraction in (0, 1], num_rounds >= 1 and at least one
\* holdout set registered whose rounds have all completed ends normally, after a broadcast that
\* leaves every registered client holding the final global state.
C8_FinalBroadcastReachesAll ==
    (/\ FractionInUnitInterval
     /\ lastOp = "fit"
     /\ pc = "idle"
     /\ num_rounds >= 1
     /\ r = num_rounds
     /\ NumHoldouts >= 1) =>
        /\ error = "none"
        /\ \A i \in DOMAIN clients : clients[i].state = model

\* C9: with a fraction in (0, 1], every checkpoint file is named by the
\* round counter of the round that wrote it.
C9_CheckpointKeyedByRound ==
    FractionInUnitInterval =>
        \A path \in DOMAIN files : path[2] = files[path].round

\* C10: once fit() has returned (the lifecycle is Finished), a call of
\* setup_model or register_clients changes neither the round counter, nor
\* the global model, nor the registered clients.
C10_LifecycleNeverMovesBack ==
    [][(/\ FractionInUnitInterval
        /\ lastOp = "fit"
        /\ pc = "idle"
        /\ error = "none"
        /\ lastOp' \in {"setup_model", "register_clients"}) =>
         UNCHANGED <<_round, hasModel, model, clients, num_clients>>]_vars

SetupFails == error' = "AssertionError" /\ UNCHANGED <<_round, hasModel, model>>

SetupSucceeds == error' = "none" /\ hasModel'

\* C11 as claimed: a call of setup_model fails, changing nothing, when a
\* round has begun, and succeeds when no round has begun.
C11_SetupSucceedsBeforeRounds ==
    [][lastOp' = "setup_model" =>
         IF executed # {} THEN SetupFails ELSE SetupSucceeds]_vars

\* C11 as amended: a call of setup_model fails, changing neither the model
\* nor the round counter, when the round counter is not 0, which it is once
\* a round has begun; it succeeds when the counter is 0.
C11_SetupRequiresRoundZero ==
    /\ [][lastOp' = "setup_model" =>
            IF _round # 0 THEN SetupFails ELSE SetupSucceeds]_vars
    /\ [](executed # {} => _round # 0)

\* setup_model was called after a round had begun, and raised
C11_Witness ==
    /\ lastOp = "setup_model"
    /\ error = "AssertionError"
    /\ executed # {}
    /\ files # NoFn

\* C12: with no client registered (and a fraction in (0, 1]), fit() starts
\* no round: it does not advance the round counter and goes on to no
\* transmit, dispatch, aggregate or checkpoint step.
C12_NoClientsNoRound ==
    [][(FractionInUnitInterval /\ num_clients = 0 /\ lastOp' = "fit") =>
         /\ _round' = _round
         /\ pc' \notin {"transmit", "dispatch", "update", "map", "coefficients",
                        "aggregate", "evaluate", "checkpoint"}]_vars

\* C13: with a fraction <= 0 (and the model set up) no client is ever
\* sampled.
C13_NonPositiveFractionRejected ==
    (fraction[1] <= 0 /\ hasModel) => sampled_client_indices = <<>>

\* the key set of a sampled client's exported state differs from the global
\* model's
KeySetMismatch ==
    \E i \in Range(sampled_client_indices) :
        DOMAIN ClientStateDict(clients[i]) # DOMAIN model

\* C14: an aggregate step that meets a sampled client whose exported key set
\* is not the global model's fails and leaves the global model as it was.
C14_KeyMismatchRejected ==
    [][(pc = "aggregate" /\ KeySetMismatch) =>
         (pc' = "idle" /\ error' # "none" /\ model' = model)]_vars

\* the tasks of the pool whose client.fit() succeeded, and those whose failed
Succeeded == {i \in DOMAIN tasks : tasks[i].st = "ok"}

Failed == {i \in DOMAIN tasks : tasks[i].st = "failed"}

\* C15: when map() has ended with some of the sampled clients failed and
\* some succeeded, the failure stays inside the round: fit() goes on to the
\* mixing coefficients without an error.
C15_PartialFailureContained ==
    [][(FractionInUnitInterval /\ pc = "map" /\ MapReady
            /\ Succeeded # {} /\ Failed # {}) =>
         (pc' = "coefficients" /\ error' = "none")]_vars

\* C16: when map() has ended with every sampled client failed, the round is
\* given up and fit() goes on with the next one: the global model, the
\* checkpoints and the round counter stay, the loop variable moves on.
C16_AllFailedRoundSkipped ==
    [][(FractionInUnitInterval /\ pc = "map" /\ MapReady
            /\ Succeeded = {} /\ Failed # {}) =>
         /\ pc' = "loop" /\ r' = r + 1
         /\ model' = model /\ files' = files /\ _round' = _round]_vars

C19_EachSampledUpdatesOnce ==
    /\ [](pc # "idle" =>
            \A i \in DOMAIN localUpdates :
               /\ localUpdates[i] <= 1
               /\ localUpdates[i] = 1 => i \in Range(sampled_client_indices))
    /\ [](pc \in {"coefficients", "aggregate", "evaluate", "checkpoint"} =>
            \A i \in Range(sampled_client_indices) : localUpdates[i] = 1)
    /\ [](\A p, q \in Running : p # q => tasks[p].idx # tasks[q].idx)
    /\ [][(lastOp' = "fit" /\ pc # "broadcast") =>
            \A i \in DOMAIN clients :
               clients'[i] # clients[i] => i \in Range(sampled_client_indices)]_vars

\* two pool threads have updated the two sampled clients of four, once each,
\* in the second round
C19_Witness ==
    /\ mp_flag /\ pc = "aggregate" /\ r = 1
    /\ num_clients = 4 /\ Len(sampled_client_indices) = 2
    /\ \A i \in DOMAIN clients :
          localUpdates[i] = (IF i \in Range(sampled_client_indices) THEN 1 ELSE 0)

\* C20: inside fit() the global model changes only in the aggregate step,
\* which has not run before in that round; and every sampled client that has
\* not yet finished its local update of the round holds the global model as
\* it is, i.e. as the last aggregation (or setup_model) left it.
C20_GlobalChangesOnlyByAggregate ==
    /\ [][(lastOp' = "fit" /\ model' # model) =>
            /\ pc = "aggregate" /\ pc' = "evaluate"
            /\ "aggregate" \notin Range(phaseLog)]_vars
    /\ [](pc = "dispatch" =>
            \A i \in Range(sampled_client_indices) : clients[i].state = model)
    /\ [](pc = "update" =>
            \A p \in seqPos..Len(sampled_client_indices) :
               clients[sampled_client_indices[p]].state = model)
    /\ [](\A p \in Running \cup Pending : clients[tasks[p].idx].state = model)

\* the sequential loop of the second round: the first sampled client is
\* done, the second is about to start from the model round 1 aggregated
C20_Witness ==
    /\ pc = "update" /\ r = 1 /\ seqPos = 2
    /\ Len(sampled_client_indices) = 2
    /\ model \notin {InitState, FileState}
    /\ clients[sampled_client_indices[2]].state = model
    /\ clients[sampled_client_indices[1]].state # model

(***************************************************************************)
(* FedADG, lines 253-321: a FedAvg whose setup_model, register_clients,    *)
(* transmit_model and aggregate are overridden to carry a generator next   *)
(* to the model.  Line 264 reads nn.DataParalle, a name torch.nn does not  *)
(* have: setup_model raises there, after line 261 and before line 265, so  *)
(* self.generator and self.model are never assigned (hasModel stays FALSE) *)
(* and the statements of fit() after the transmit of line 168 are never    *)
(* reached.                                                                *)
(***************************************************************************)
GenKeys == {"g"}

\* the parameters of the GeneDistrNet line 261 builds
GenInitState == [k \in GenKeys |-> <<0, 1>>]

\* client.setup_model(copy of featurizer, of classifier, of generator)
FedADG_ClientSetupModel(c, state, gen) ==
    [name |-> c.name, size |-> c.size, keys |-> c.keys, ready |-> TRUE,
     state |-> state, generator |-> gen]

\* client.update_model(state_dict, generator state_dict)
FedADG_ClientUpdateModel(c, state, gen) ==
    [c EXCEPT !.state = state, !.generator = gen]

FedADG_ClientSets ==
    { <<>>,
      <<MkClient("p", 1), MkClient("p", 3)>>,
      <<MkClient("q", 2), MkClient("q", 2), MkClient("q", 2)>> }

\* lines 254-268
FedADG_setup_model(model_file, start_epoch) ==
    /\ pc = "idle"
    /\ lastOp' = "setup_model"
    /\ IF _round # 0
       THEN /\ error' = "AssertionError"
            /\ UNCHANGED generator
       ELSE /\ error' = "AttributeError"
            /\ generator' = GenInitState
    /\ UNCHANGED <<cfgVars, _round, hasModel, model, clients, num_clients,
                   test_dataloader, pc, fitVars, files, histVars>>

\* lines 270-275; self._featurizer exists once line 259 has run, which is
\* when self._generator exists
FedADG_register_clients(cs) ==
    /\ pc = "idle"
    /\ lastOp' = "register_clients"
    /\ num_clients' = Len(cs)
    /\ IF Len(cs) > 0 /\ generator = NoFn
       THEN /\ error' = "AttributeError"
            /\ clients' = [i \in 0..(Len(cs) - 1) |-> NewClient(cs[i + 1])]
       ELSE /\ error' = "none"
            /\ clients' = [i \in 0..(Len(cs) - 1) |->
                              FedADG_ClientSetupModel(NewClient(cs[i + 1]),
                                                      InitState, generator)]
    /\ UNCHANGED <<cfgVars, generator, _round, hasModel, model, test_dataloader,
                   pc, fitVars, files, histVars>>

FedADG_SetupModel ==
    \E mf \in BOOLEAN, se \in 0..MaxStartEpoch : FedADG_setup_model(mf, se)

FedADG_RegisterClients == \E cs \in FedADG_ClientSets : FedADG_register_clients(cs)

\* lines 277-296: the clients after transmit_model(indices)
FedADG_transmit_model(indices) ==
    [i \in DOMAIN clients |->
        IF i \in indices
        THEN FedADG_ClientUpdateModel(clients[i], model, generator)
        ELSE clients[i]]

\* line 168 with FedADG's transmit_model: line 293 reads self.model
FedADG_TransmitSampled ==
    /\ pc = "transmit"
    /\ Log("transmit")
    /\ IF ~hasModel \/ \E i \in Range(sampled_client_indices) : ~clients[i].ready
       THEN /\ Raise("AttributeError")
            /\ UNCHANGED clients
       ELSE /\ clients' = FedADG_transmit_model(Range(sampled_client_indices))
            /\ pc' = "dispatch"
            /\ UNCHANGED <<sampled_client_indices, selected_total_size,
                           mixing_coefficients, tasks, workers, seqPos, evalPos,
                           error>>
    /\ UNCHANGED <<cfgVars, generator, _round, hasModel, model, num_clients,
                   test_dataloader, r, files, lastOp, executed, fitStartRound,
                   localUpdates>>

\* lines 306-316 from iteration `it` on; line 307 needs the client's model,
\* lines 309-316 read self.model's keys and index both the client's model
\* weights and the client's generator weights by them
RECURSIVE FedADG_Accumulate(_, _, _, _, _)
FedADG_Accumulate(it, indices, coefficients, averaged, averaged_gen) ==
    IF it > Len(indices)
    THEN [error |-> "none", weights |-> averaged, generator_weights |-> averaged_gen]
    ELSE IF ~clients[indices[it]].ready \/ ~hasModel
    THEN [error |-> "AttributeError", weights |-> averaged,
          generator_weights |-> averaged_gen]
    ELSE LET local_weights == clients[indices[it]].state
             local_generator_weights == clients[indices[it]].generator
         IN  IF ~(DOMAIN model \subseteq DOMAIN local_weights)
                  \/ ~(DOMAIN model \subseteq DOMAIN local_generator_weights)
             THEN [error |-> "KeyError", weights |-> averaged,
                   generator_weights |-> averaged_gen]
             ELSE FedADG_Accumulate(it + 1, indices, coefficients,
                    [key \in DOMAIN model |->
                        IF it = 1
                        THEN RatMul(coefficients[it], local_weights[key])
                        ELSE RatAdd(averaged[key],
                                    RatMul(coefficients[it], local_weights[key]))],
                    [key \in DOMAIN model |->
                        IF it = 1
                        THEN RatMul(coefficients[it], local_generator_weights[key])
                        ELSE RatAdd(averaged_gen[key],
                                    RatMul(coefficients[it],
                                           local_generator_weights[key]))])

\* lines 298-321: what the two load_state_dict calls get, or the exception
FedADG_aggregate(indices, coefficients) ==
    FedADG_Accumulate(1, indices, coefficients, NoFn, NoFn)

\* the index lists a caller hands to aggregate: the first clients registered
IndexLists ==
    {ind \in {<<0>>, <<0, 1>>, <<0, 1, 2>>} : Range(ind) \subseteq DOMAIN clients}

\* the coefficients line 177 computes for an index list
CoefficientsFor(ind) ==
    [i \in DOMAIN ind |->
        <<ClientLen(clients[ind[i]]),
          SeqSum([j \in DOMAIN ind |-> ClientLen(clients[ind[j]])])>>]

\* aggregate(sampled_client_indices, coefficients) is called; the two
\* arguments are kept in the variables of their names
FedADG_Aggregate ==
    /\ pc = "idle"
    /\ lastOp' = "aggregate"
    /\ \E ind \in IndexLists :
          LET res == FedADG_aggregate(ind, CoefficientsFor(ind))
          IN  /\ sampled_client_indices' = ind
              /\ mixing_coefficients' = CoefficientsFor(ind)
              /\ error' = res.error
              /\ IF res.error = "none"
                 THEN /\ model' = res.weights
                      /\ generator' = res.generator_weights
                 ELSE UNCHANGED <<model, generator>>
    /\ UNCHANGED <<cfgVars, _round, hasModel, clients, num_clients,
                   test_dataloader, pc, r, selected_total_size, tasks, workers,
                   seqPos, evalPos, files, histVars>>

FedADG_Next ==
    \/ FedADG_SetupModel
    \/ FedADG_RegisterClients
    \/ RegisterTestloader
    \/ FedADG_Aggregate
    \/ FitBegin
    \/ FitLoop
    \/ SampleClients
    \/ FedADG_TransmitSampled
    \/ Report

SpecADG == Init /\ [][FedADG_Next]_vars

\* the sum over i of coefficients[i] * (generator state of client
\* indices[i])[key], as one fraction that is not reduced
RECURSIVE GeneratorWeightedSum(_, _, _, _)
GeneratorWeightedSum(key, indices, coefficients, n) ==
    IF n = 0 THEN <<0, 1>>
    ELSE LET rest == GeneratorWeightedSum(key, indices, coefficients, n - 1)
             value == clients[indices[n]].generator[key]
             term == <<coefficients[n][1] * value[1], coefficients[n][2] * value[2]>>
         IN  <<rest[1] * term[2] + term[1] * rest[2], rest[2] * term[2]>>

\* C17: FedADG's aggregate, called for set-up clients, succeeds and leaves a
\* generator state with the generator's own key set whose value at each key
\* is the sum over the given clients of coefficient times that client's
\* generator value at the key.
C17_GeneratorWeightedSum ==
    [][(/\ lastOp' = "aggregate"
        /\ \A i \in Range(sampled_client_indices') : clients[i].ready) =>
         /\ error' = "none"
         /\ DOMAIN generator' = GenKeys
         /\ \A key \in GenKeys :
               RatEq(generator'[key],
                     GeneratorWeightedSum(key, sampled_client_indices',
                                          mixing_coefficients',
                                          Len(sampled_client_indices')))]_vars
====
